---- MODULE Spec2Model ----
(***************************************************************************)
(* The ha-magicstrip integration as a state machine.                       *)
(*                                                                         *)
(* custom_components/magicstrip/__init__.py: async_setup_entry with its    *)
(* closure detection_callback (one asyncio task per advertisement, which   *)
(* is how bleak runs a coroutine detection callback), the closure          *)
(* async_update_data driven by each DataUpdateCoordinator, and             *)
(* async_unload_entry and async_setup_entry_platform.                      *)
(* custom_components/magicstrip/light.py: MagicStripLight.async_turn_on    *)
(* and async_turn_off.  custom_components/magicstrip/number.py: the        *)
(* constructor the number platform hands to async_setup_entry_platform.    *)
(*                                                                         *)
(* Every `await` of the code is a point where the task is suspended: a     *)
(* task is one record in cb / polls / cmds while it is suspended, and the  *)
(* code between two awaits is one atomic action.                           *)
(***************************************************************************)
EXTENDS Integers, Sequences, FiniteSets, Bags, TLC

\* ------------------------------------------------------------------ bounds
\* The addresses that advertise, and the events the environment supplies in
\* one behaviour: advertisements, poll ticks and service calls together.
NumAddr == 2
MaxEvents == 3

Addr == 1..NumAddr
PLATFORMS == <<"light", "number">>
PlatformSet == {PLATFORMS[i] : i \in 1..Len(PLATFORMS)}

\* ------------------------------------------------------- values and helpers
\* Python's None is the empty tuple; a value x that is present is <<x>>.
None == <<>>
Some(x) == <<x>>

\* The colour MagicStripLight.rgb_color substitutes for a colour that is not set.
DEFAULT_COLOR == <<255, 255, 255>>

\* The brightness MagicStripLight.brightness substitutes for one that is not set.
DEFAULT_BRIGHTNESS == 255

\* MagicStripState as the session holds it right after MagicStripDevice(ble_device).
InitialState == [on |-> FALSE, brightness |-> None, color |-> None]

\* The advertisements the scanner can deliver: the address, whether
\* device_filter accepts it, and the power state it reports.
Advertisements == [addr : Addr, recognized : BOOLEAN, on : BOOLEAN]

Range(s) == {s[i] : i \in 1..Len(s)}

\* The last step taken: which handler ran to its next await or to its end.
Event(k) == [kind |-> k]

VARIABLES
    setup,      \* position of async_setup_entry: "starting", "forwarding", "returned"
    hassData,   \* whether hass.data[DOMAIN] holds the entry's EntryState
    nEvents,    \* advertisements, poll ticks and service calls so far
    accepted,   \* addresses an advertisement with the recognized payload came from
    sessions,   \* every MagicStripDevice constructed: [addr, state]
    coords,     \* every DataUpdateCoordinator constructed: [dev, data, ok]
    devices,    \* state.devices: address -> [device, coordinator]
    order,      \* the insertion order of state.devices
    regLog,     \* every async_dispatcher_send of DISPATCH_DETECTION, in order
    subscribed, \* platforms whose _detection is connected to the dispatcher
    called,     \* platforms that have called async_setup_entry_platform
    offered,    \* per platform, the DeviceStates its constructor was called with
    entities,   \* per platform, the entities added (each a DeviceState)
    cb,         \* suspended detection_callback tasks (a bag of task records)
    polls,      \* coordinators with a refresh suspended in device.update()
    cmds,       \* suspended async_turn_on / async_turn_off calls (a bag)
    last        \* the last step taken

vars == <<setup, hassData, nEvents, accepted, sessions, coords, devices, order, regLog,
          subscribed, called, offered, entities, cb, polls, cmds, last>>

Init ==
    /\ setup = "starting"
    /\ hassData = TRUE
    /\ nEvents = 0
    /\ accepted = {}
    /\ sessions = <<>>
    /\ coords = <<>>
    /\ devices = <<>>
    /\ order = <<>>
    /\ regLog = <<>>
    /\ subscribed = {}
    /\ called = {}
    /\ offered = [p \in PlatformSet |-> <<>>]
    /\ entities = [p \in PlatformSet |-> {}]
    /\ cb = EmptyBag
    /\ polls = {}
    /\ cmds = EmptyBag
    /\ last = Event("init")

\* ------------------------------------------------------ the pieces of code
\* A detection_callback that registers whatever advertises: the filter
\* accepts every advertisement.
device_filter_accepts_all(adv) == TRUE

\* device_filter(ble_device, advertisement_data) of pymagicstrip, as called.
device_filter(adv) == adv.recognized

\* The session's state after device.detection_callback succeeded on adv.
ApplyAdvertisement(st, on) == [st EXCEPT !.on = on]

\* A coordinator whose async_set_updated_data stores nothing.
async_set_updated_data_not_stored(cs, c, data) == cs

\* coordinator.async_set_updated_data(data): the data is stored as the
\* published snapshot and the update counts as a success.
async_set_updated_data(cs, c, data) ==
    [cs EXCEPT ![c] = [@ EXCEPT !.data = Some(data), !.ok = TRUE]]

\* DeviceState(device=..., coordinator=..., ...)
DeviceState(dev, coord) == [device |-> dev, coordinator |-> coord]

\* The address a DeviceState's device was constructed for (device.address).
AddressOf(ss, ds) == ss[ds.device].addr

\* Whether a platform's _constructor raises when it is called with a
\* DeviceState: the number platform reads device_state.device_info and
\* device_state.extra_state_attributes, which DeviceState does not have.
ConstructorRaises(p) == p = "number"

\* async_add_entities(constructor(device_state)) for one DeviceState: the
\* platform's entities afterwards.  An entity whose unique id (the device's
\* address) is already taken is not added a second time.
AddEntity(p, es, ss, ds) ==
    IF ConstructorRaises(p) \/ (\E e \in es : AddressOf(ss, e) = AddressOf(ss, ds))
    THEN es
    ELSE es \cup {ds}

\* The generator of async_setup_entry_platform over entry_state.devices.values():
\* the DeviceStates the constructor is called with, in order, up to and
\* including the first one on which it raises.
RECURSIVE Consumed(_, _)
Consumed(p, existing) ==
    IF existing = <<>> THEN <<>>
    ELSE IF ConstructorRaises(p) THEN <<Head(existing)>>
    ELSE <<Head(existing)>> \o Consumed(p, Tail(existing))

\* entry_state.devices.values(), in the dict's insertion order.
DeviceValues == [i \in 1..Len(order) |-> devices[order[i]]]

\* A bag of suspended tasks with one task more, and with one task less.
With(bag, task) == bag (+) SetToBag({task})
Without(bag, task) == bag (-) SetToBag({task})

\* ------------------------------------------------------ async_setup_entry
\* `await scanner.start()` returns: advertisements are delivered from here on.
ScannerStarted ==
    /\ setup = "starting"
    /\ setup' = "forwarding"
    /\ last' = Event("scanner_started")
    /\ UNCHANGED <<hassData, nEvents, accepted, sessions, coords, devices, order, regLog,
                   subscribed, called, offered, entities, cb, polls, cmds>>

\* async_setup_entry_platform, called by a platform's async_setup_entry while
\* async_forward_entry_setups is awaited.  It is a @callback: nothing runs
\* between reading the existing entries and connecting _detection.
\* async_add_entities takes the generator and the entities are added by the
\* platform, so a constructor that raises ends the generator without
\* unwinding async_setup_entry_platform.
PlatformSetup(p) ==
    /\ setup = "forwarding"
    /\ p \notin called
    /\ called' = called \cup {p}
    /\ offered' = [offered EXCEPT ![p] = Consumed(p, DeviceValues)]
    /\ entities' = [entities EXCEPT ![p] =
                       IF Len(Consumed(p, DeviceValues)) = Len(order) /\ ~ConstructorRaises(p)
                       THEN Range(DeviceValues) ELSE {}]
    /\ subscribed' = subscribed \cup {p}
    /\ last' = Event("platform_setup")
    /\ UNCHANGED <<setup, hassData, nEvents, accepted, sessions, coords, devices, order, regLog,
                   cb, polls, cmds>>

\* async_forward_entry_setups has set up both platforms: return True.
SetupReturn ==
    /\ setup = "forwarding"
    /\ called = PlatformSet
    /\ setup' = "returned"
    /\ last' = Event("setup_returned_true")
    /\ UNCHANGED <<hassData, nEvents, accepted, sessions, coords, devices, order, regLog,
                   subscribed, called, offered, entities, cb, polls, cmds>>

\* ----------------------------------------------------- detection_callback
\* An advertisement for a registered address: the task is suspended in
\* `await data.device.detection_callback(...)` holding the entry it looked up.
AdvertiseKnown(adv) ==
    /\ setup # "starting"
    /\ nEvents < MaxEvents
    /\ adv.addr \in DOMAIN devices
    /\ nEvents' = nEvents + 1
    /\ accepted' = IF adv.recognized THEN accepted \cup {adv.addr} ELSE accepted
    /\ cb' = With(cb, [path |-> "known", addr |-> adv.addr,
                        device |-> devices[adv.addr].device,
                        coordinator |-> devices[adv.addr].coordinator,
                        on |-> adv.on])
    /\ last' = Event("known_start")
    /\ UNCHANGED <<setup, hassData, sessions, coords, devices, order, regLog,
                   subscribed, called, offered, entities, polls, cmds>>

\* An advertisement for an unregistered address that device_filter rejects:
\* the callback returns.
AdvertiseRejected(adv) ==
    /\ setup # "starting"
    /\ nEvents < MaxEvents
    /\ adv.addr \notin DOMAIN devices
    /\ ~device_filter(adv)
    /\ nEvents' = nEvents + 1
    /\ accepted' = IF adv.recognized THEN accepted \cup {adv.addr} ELSE accepted
    /\ last' = Event("filter_reject")
    /\ UNCHANGED <<setup, hassData, sessions, coords, devices, order, regLog,
                   subscribed, called, offered, entities, cb, polls, cmds>>

\* An advertisement for an unregistered address that device_filter accepts:
\* MagicStripDevice(ble_device) is constructed and the task is suspended in
\* `await device.detection_callback(...)`.
AdvertiseNew(adv) ==
    /\ setup # "starting"
    /\ nEvents < MaxEvents
    /\ adv.addr \notin DOMAIN devices
    /\ device_filter(adv)
    /\ nEvents' = nEvents + 1
    /\ accepted' = IF adv.recognized THEN accepted \cup {adv.addr} ELSE accepted
    /\ sessions' = Append(sessions, [addr |-> adv.addr, state |-> InitialState])
    /\ cb' = With(cb, [path |-> "new", addr |-> adv.addr,
                        device |-> Len(sessions) + 1, coordinator |-> 0,
                        on |-> adv.on])
    /\ last' = Event("new_start")
    /\ UNCHANGED <<setup, hassData, coords, devices, order, regLog,
                   subscribed, called, offered, entities, polls, cmds>>

\* A callback that runs only in its turn: while the callback of a lower
\* address is still suspended, one worker is busy with it.
ResumableInTurn(t) == BagIn(t, cb) /\ \A u \in BagToSet(cb) : u.addr >= t.addr

\* Whether the suspended detection_callback task t can resume: the scanner
\* runs each callback as a task of its own, so the task resumes when its own
\* awaited call ends, whatever else is suspended.
Resumable(t) == BagIn(t, cb)

\* The known-device path resumes.  On success the session's state follows the
\* advertisement and is published; an exception leaves the callback.
KnownResume(t, outcome) ==
    /\ Resumable(t)
    /\ t.path = "known"
    /\ cb' = Without(cb, t)
    /\ IF outcome = "ok"
       THEN /\ sessions' = [sessions EXCEPT ![t.device].state =
                               ApplyAdvertisement(@, t.on)]
            /\ coords' = async_set_updated_data(coords, t.coordinator,
                                                sessions'[t.device].state)
            /\ last' = Event("known_ok")
       ELSE /\ UNCHANGED <<sessions, coords>>
            /\ last' = Event("known_error")
    /\ UNCHANGED <<setup, hassData, nEvents, accepted, devices, order, regLog,
                   subscribed, called, offered, entities, polls, cmds>>

\* The rest of the new-device path, from the coordinator's construction to
\* async_dispatcher_send: no await in it.
Register(t, ss) ==
    LET a == t.addr
        c == Len(coords) + 1
        ds == DeviceState(t.device, c)
    IN  /\ coords' = Append(coords, [dev |-> t.device,
                                     data |-> Some(ss[t.device].state), ok |-> TRUE])
        /\ devices' = (a :> ds) @@ devices
        /\ order' = IF a \in DOMAIN devices THEN order ELSE Append(order, a)
        /\ regLog' = Append(regLog, ds)
        /\ offered' = [p \in PlatformSet |->
                          IF p \in subscribed THEN Append(offered[p], ds) ELSE offered[p]]
        /\ entities' = [p \in PlatformSet |->
                          IF p \in subscribed THEN AddEntity(p, entities[p], ss, ds)
                          ELSE entities[p]]

\* The new-device path resumes from the initial contact.
\*   ok:      the session's state follows the advertisement; register.
\*   timeout: BleTimeoutError or UpdateFailed is logged, and the code goes on
\*            to register the device all the same.
\*   dbus:    BleakDBusError: ConfigEntryNotReady is raised out of the callback.
NewResume(t, outcome) ==
    /\ Resumable(t)
    /\ t.path = "new"
    /\ cb' = Without(cb, t)
    /\ CASE outcome = "ok" ->
              /\ sessions' = [sessions EXCEPT ![t.device].state =
                                 ApplyAdvertisement(@, t.on)]
              /\ Register(t, sessions')
              /\ last' = Event("new_ok")
         [] outcome = "timeout" ->
              /\ UNCHANGED sessions
              /\ Register(t, sessions)
              /\ last' = Event("new_timeout")
         [] OTHER ->
              /\ UNCHANGED <<sessions, coords, devices, order, regLog, offered, entities>>
              /\ last' = Event("new_not_ready")
    /\ UNCHANGED <<setup, hassData, nEvents, accepted, subscribed, called, polls, cmds>>


\* ------------------------------------------------ the coordinator's polling
\* The session's state after device.update() succeeded: the device reports
\* its power state; it does not report brightness or colour.
Reconcile(st, on) == [st EXCEPT !.on = on]

\* An update_method that swallows the error of device.update() and returns
\* nothing instead of raising UpdateFailed.
async_update_data_returns_none(outcome, st) ==
    [raised |-> FALSE, value |-> IF outcome = "ok" THEN Some(st) ELSE None]

\* async_update_data, the coordinator's update_method, once device.update()
\* has ended with `outcome`: a timeout-class error becomes UpdateFailed,
\* any other error leaves as it is, and on success device.state is returned.
async_update_data(outcome, st) ==
    IF outcome = "ok"
    THEN [raised |-> FALSE, value |-> Some(st)]
    ELSE [raised |-> TRUE, value |-> None]

\* A refresh that leaves last_update_success alone when update_method raises.
Refresh_keeps_flag(cs, c, result) ==
    IF result.raised
    THEN cs
    ELSE [cs EXCEPT ![c] = [@ EXCEPT !.data = result.value, !.ok = TRUE]]

\* DataUpdateCoordinator's refresh around update_method: a result is stored
\* and published, an exception only clears last_update_success.
Refresh(cs, c, result) ==
    IF result.raised
    THEN [cs EXCEPT ![c] = [@ EXCEPT !.ok = FALSE]]
    ELSE [cs EXCEPT ![c] = [@ EXCEPT !.data = result.value, !.ok = TRUE]]

\* Whether a coordinator has a listener: its timer runs only while an entity
\* is attached to it.
HasListener(c) == \E p \in PlatformSet : \E e \in entities[p] : e.coordinator = c

\* A poll tick: the coordinator calls async_update_data, which is suspended
\* in `await device.update()`.
PollStart(c) ==
    /\ c \in 1..Len(coords)
    /\ HasListener(c)
    /\ c \notin polls
    /\ nEvents < MaxEvents
    /\ polls' = polls \cup {c}
    /\ nEvents' = nEvents + 1
    /\ last' = Event("poll_start")
    /\ UNCHANGED <<setup, hassData, accepted, sessions, coords, devices, order, regLog,
                   subscribed, called, offered, entities, cb, cmds>>

\* device.update() ends: with "ok" and the power state the device reports,
\* with "timeout" (a timeout-class error) or with "error" (any other error).
PollResume(c, outcome, on) ==
    /\ c \in polls
    /\ polls' = polls \ {c}
    /\ sessions' = IF outcome = "ok"
                   THEN [sessions EXCEPT ![coords[c].dev].state = Reconcile(@, on)]
                   ELSE sessions
    /\ coords' = Refresh(coords, c, async_update_data(outcome, sessions'[coords[c].dev].state))
    /\ last' = Event(IF outcome = "ok" THEN "poll_ok" ELSE "poll_failed")
    /\ UNCHANGED <<setup, hassData, nEvents, accepted, devices, order, regLog,
                   subscribed, called, offered, entities, cb, cmds>>

\* ------------------------------------------------------- MagicStripLight
\* self.coordinator.data of the entity made from DeviceState e.
Data(cs, e) == cs[e.coordinator].data

\* Whether self.is_on is truthy: there is a published snapshot and it is on.
is_on(cs, e) == Data(cs, e) # None /\ Data(cs, e)[1].on

\* self.rgb_color: DEFAULT_COLOR stands in for a colour that is not set.
rgb_color(cs, e) ==
    IF Data(cs, e) = None THEN None
    ELSE IF Data(cs, e)[1].color = None THEN Some(DEFAULT_COLOR)
    ELSE Data(cs, e)[1].color

\* self.brightness: DEFAULT_BRIGHTNESS stands in for a brightness that is
\* falsy (`not data.brightness`), which None is and which 0 is too.
brightness(cs, e) ==
    IF Data(cs, e) = None THEN None
    ELSE IF Data(cs, e)[1].brightness = None \/ Data(cs, e)[1].brightness[1] = 0
         THEN Some(DEFAULT_BRIGHTNESS)
         ELSE Data(cs, e)[1].brightness

\* The awaits of async_turn_on and async_turn_off in program order:
\* 1 toggle_power, 2 set_brightness, 3 set_color; 4 is the closing
\* async_set_updated_data.  StageFrom is the first of them, from stage i on,
\* whose condition holds when the code reaches it.
Publish == 4
RECURSIVE StageFrom(_, _, _)
StageFrom(i, cmd, cs) ==
    IF i >= Publish THEN Publish
    ELSE IF \/ i = 1 /\ cmd.kind = "on" /\ ~is_on(cs, cmd.entity)
            \/ i = 1 /\ cmd.kind = "off" /\ is_on(cs, cmd.entity)
            \/ i = 2 /\ cmd.kind = "on" /\ cmd.b # None
            \/ i = 3 /\ cmd.kind = "on" /\ cmd.c # None /\ cmd.c # rgb_color(cs, cmd.entity)
         THEN i
         ELSE StageFrom(i + 1, cmd, cs)

\* The session's state once the command awaited at `stage` has succeeded.
Commanded(st, stage, cmd) ==
    CASE stage = 1 -> [st EXCEPT !.on = ~st.on]
      [] stage = 2 -> [st EXCEPT !.brightness = cmd.b]
      [] OTHER -> [st EXCEPT !.color = cmd.c]

\* The calls a user makes: async_turn_on with no argument, with a brightness,
\* with a brightness and an rgb_color, and async_turn_off.  An argument is
\* None when the keyword is absent.
Commands ==
    {[kind |-> "on", b |-> None, c |-> None],
     [kind |-> "on", b |-> Some(0), c |-> None],
     [kind |-> "on", b |-> Some(128), c |-> Some(<<255, 0, 0>>)],
     [kind |-> "off", b |-> None, c |-> None]}

\* A service call on a light entity runs up to its first await, or, when
\* no command is needed, to the closing async_set_updated_data.
CommandStart(e, call) ==
    LET cmd == [kind |-> call.kind, b |-> call.b, c |-> call.c, entity |-> e, stage |-> 0]
        first == StageFrom(1, cmd, coords)
    IN  /\ e \in entities["light"]
        /\ nEvents < MaxEvents
        /\ nEvents' = nEvents + 1
        /\ IF first = Publish
           THEN /\ coords' = async_set_updated_data(coords, e.coordinator,
                                                    sessions[e.device].state)
                /\ cmds' = cmds
                /\ last' = Event("command_published")
           ELSE /\ coords' = coords
                /\ cmds' = With(cmds, [cmd EXCEPT !.stage = first])
                /\ last' = Event("command_start")
        /\ UNCHANGED <<setup, hassData, accepted, sessions, devices, order, regLog,
                       subscribed, called, offered, entities, cb, polls>>

\* A call that publishes device.state on its way out whether or not the
\* command failed, as with the publish in a `finally`.
CommandResume_publishes_on_error(cmd, outcome) ==
    /\ BagIn(cmd, cmds)
    /\ LET e == cmd.entity
           nxt == StageFrom(cmd.stage + 1, cmd, coords)
       IN  IF outcome = "ok"
           THEN /\ sessions' = [sessions EXCEPT ![e.device].state =
                                   Commanded(@, cmd.stage, cmd)]
                /\ IF nxt = Publish
                   THEN /\ coords' = async_set_updated_data(coords, e.coordinator,
                                                            sessions'[e.device].state)
                        /\ cmds' = Without(cmds, cmd)
                        /\ last' = Event("command_published")
                   ELSE /\ coords' = coords
                        /\ cmds' = With(Without(cmds, cmd), [cmd EXCEPT !.stage = nxt])
                        /\ last' = Event("command_next")
           ELSE /\ UNCHANGED sessions
                /\ coords' = async_set_updated_data(coords, e.coordinator,
                                                    sessions[e.device].state)
                /\ cmds' = Without(cmds, cmd)
                /\ last' = Event("command_failed")
    /\ UNCHANGED <<setup, hassData, nEvents, accepted, devices, order, regLog,
                   subscribed, called, offered, entities, cb, polls>>

\* The awaited device command ends.  "ok": the session records the value
\* and the call goes on to its next await or publishes.  "error":
\* BleConnectionError leaves the call (as UpdateFailed from async_turn_on),
\* and nothing is published.
CommandResume(cmd, outcome) ==
    /\ BagIn(cmd, cmds)
    /\ LET e == cmd.entity
           nxt == StageFrom(cmd.stage + 1, cmd, coords)
       IN  IF outcome = "ok"
           THEN /\ sessions' = [sessions EXCEPT ![e.device].state =
                                   Commanded(@, cmd.stage, cmd)]
                /\ IF nxt = Publish
                   THEN /\ coords' = async_set_updated_data(coords, e.coordinator,
                                                            sessions'[e.device].state)
                        /\ cmds' = Without(cmds, cmd)
                        /\ last' = Event("command_published")
                   ELSE /\ coords' = coords
                        /\ cmds' = With(Without(cmds, cmd), [cmd EXCEPT !.stage = nxt])
                        /\ last' = Event("command_next")
           ELSE /\ UNCHANGED <<sessions, coords>>
                /\ cmds' = Without(cmds, cmd)
                /\ last' = Event("command_failed")
    /\ UNCHANGED <<setup, hassData, nEvents, accepted, devices, order, regLog,
                   subscribed, called, offered, entities, cb, polls>>

\* ----------------------------------------------------- async_unload_entry
\* async_unload_platforms succeeded: the platforms' entities are removed
\* (their coordinators lose their listeners), the entry's on-unload callbacks
\* disconnect _detection, and the entry is popped from hass.data.  The
\* scanner is not stopped and detection_callback stays registered.
UnloadOk ==
    /\ setup = "returned"
    /\ hassData
    /\ hassData' = FALSE
    /\ entities' = [p \in PlatformSet |-> {}]
    /\ subscribed' = {}
    /\ last' = Event("unload_true")
    /\ UNCHANGED <<setup, nEvents, accepted, sessions, coords, devices, order, regLog,
                   called, offered, cb, polls, cmds>>

\* An unload that pops the entry from hass.data whatever async_unload_platforms
\* returned.
UnloadFailed_pops_anyway ==
    /\ setup = "returned"
    /\ hassData
    /\ last.kind # "unload_false"
    /\ hassData' = FALSE
    /\ last' = Event("unload_false")
    /\ UNCHANGED <<setup, nEvents, accepted, sessions, coords, devices, order, regLog,
                   subscribed, called, offered, entities, cb, polls, cmds>>

\* async_unload_platforms failed: False is returned and nothing is popped.
UnloadFailed ==
    /\ setup = "returned"
    /\ hassData
    /\ last.kind # "unload_false"
    /\ last' = Event("unload_false")
    /\ UNCHANGED <<setup, hassData, nEvents, accepted, sessions, coords, devices, order, regLog,
                   subscribed, called, offered, entities, cb, polls, cmds>>

\* ------------------------------------------------------ the specification
Next ==
    \/ ScannerStarted
    \/ \E p \in PlatformSet : PlatformSetup(p)
    \/ SetupReturn
    \/ \E adv \in Advertisements : AdvertiseKnown(adv)
    \/ \E adv \in Advertisements : AdvertiseRejected(adv)
    \/ \E adv \in Advertisements : AdvertiseNew(adv)
    \/ \E t \in BagToSet(cb) : \E outcome \in {"ok", "error"} : KnownResume(t, outcome)
    \/ \E t \in BagToSet(cb) : \E outcome \in {"ok", "timeout", "dbus"} : NewResume(t, outcome)
    \/ \E c \in 1..Len(coords) : PollStart(c)
    \/ \E c \in polls : \E outcome \in {"ok", "timeout", "error"} : \E on \in BOOLEAN :
          PollResume(c, outcome, on)
    \/ \E e \in entities["light"] : \E call \in Commands : CommandStart(e, call)
    \/ \E cmd \in BagToSet(cmds) : \E outcome \in {"ok", "error"} : CommandResume(cmd, outcome)
    \/ UnloadOk
    \/ UnloadFailed

Spec == Init /\ [][Next]_vars

\* The addresses whose transport calls never return.  The calls of every
\* other address end: the event loop runs each task whose awaited call has
\* ended, so the resumption of their callbacks and refreshes is weakly fair.
Hanging == {CHOOSE a \in Addr : TRUE}

\* One of the address's suspended callbacks or refreshes resumes.
Finish(a) ==
    \/ \E t \in BagToSet(cb) : \E outcome \in {"ok", "error"} :
          t.addr = a /\ KnownResume(t, outcome)
    \/ \E t \in BagToSet(cb) : \E outcome \in {"ok", "timeout", "dbus"} :
          t.addr = a /\ NewResume(t, outcome)
    \/ \E c \in polls : \E outcome \in {"ok", "timeout", "error"} : \E on \in BOOLEAN :
          sessions[coords[c].dev].addr = a /\ PollResume(c, outcome, on)

LiveSpec == Spec /\ \A a \in Addr \ Hanging : WF_vars(Finish(a))

\* ================================================================ claims
\* What has been made for an address so far.
SessionsFor(a) == Cardinality({d \in 1..Len(sessions) : sessions[d].addr = a})
CoordinatorsFor(a) ==
    Cardinality({c \in 1..Len(coords) : sessions[coords[c].dev].addr = a})
RegistrationsFor(a) ==
    Cardinality({i \in 1..Len(regLog) : AddressOf(sessions, regLog[i]) = a})

\* The detection_callback tasks suspended in device.detection_callback for an address.
InProgress(a) ==
    BagCardinality([t \in {u \in BagToSet(cb) : u.addr = a} |-> CopiesIn(t, cb)])

\* The task or command that ended in this step.
Ended(task, bag, bagAfter) == CopiesIn(task, bagAfter) < CopiesIn(task, bag)

\* The sessions that went on to be registered for an address (a session
\* built for an initial contact and dropped with it is not counted).
RegisteredSessionsFor(a) ==
    Cardinality({regLog[i].device : i \in {j \in 1..Len(regLog) :
                                              AddressOf(sessions, regLog[j]) = a}})

\* C1: whatever advertisements arrive for an address, duplicates during the
\* first initial contact included, at most one MagicStripDevice and one
\* DataUpdateCoordinator are set up for it and at most one registration
\* event is sent for it.
C1_OneSessionPerAddress ==
    \A a \in Addr :
        /\ RegisteredSessionsFor(a) <= 1
        /\ CoordinatorsFor(a) <= 1
        /\ RegistrationsFor(a) <= 1

\* C2: a platform that calls async_setup_entry_platform has its constructor
\* called with each entry of state.devices exactly once, and from then on,
\* while it is connected, with each registration event exactly once and with
\* nothing else.
C2_SubscriberSeesEachEntryOnce ==
    [][\A p \in PlatformSet :
          /\ (p \notin called /\ p \in called') =>
                /\ Len(offered'[p]) = Len(DeviceValues)
                /\ Range(offered'[p]) = Range(DeviceValues)
          /\ (p \in subscribed /\ p \in subscribed') =>
                offered'[p] = offered[p] \o SubSeq(regLog', Len(regLog) + 1, Len(regLog'))
      ]_vars

\* C3: when the initial contact of the new-device path ends with a
\* timeout-class error, nothing is registered: state.devices is unchanged, no
\* coordinator is created and no registration event is sent.
C3_TimeoutLeavesNoEntry ==
    [][last'.kind = "new_timeout" =>
          devices' = devices /\ coords' = coords /\ regLog' = regLog]_vars

\* C4: when the initial contact of the new-device path ends with
\* BleakDBusError, async_setup_entry ends as not ready, and nothing is
\* registered and no registration event is sent.
C4_TransportErrorFailsSetup ==
    [][last'.kind = "new_not_ready" =>
          setup' = "not_ready" /\ devices' = devices /\ regLog' = regLog]_vars

\* C5: an address from which no advertisement passing device_filter has come
\* has no session, no coordinator and no registry entry, and no subscriber
\* has been handed an entry or an event for it.
C5_RejectedAdvertisementProducesNothing ==
    \A a \in Addr \ accepted :
        /\ SessionsFor(a) = 0
        /\ CoordinatorsFor(a) = 0
        /\ a \notin DOMAIN devices
        /\ RegistrationsFor(a) = 0
        /\ \A p \in PlatformSet :
              /\ \A i \in 1..Len(offered[p]) : AddressOf(sessions, offered[p][i]) # a
              /\ \A e \in entities[p] : AddressOf(sessions, e) # a

\* C5 witness: an advertisement has just been rejected by device_filter for
\* an address that nothing has been accepted from.
C5_Witness ==
    /\ last.kind = "filter_reject"
    /\ Addr \ accepted # {}
    /\ nEvents > 0

\* C6: a poll tick whose device.update() fails leaves the coordinator's
\* published snapshot as it was, which is a snapshot and not None, and
\* marks the update as failed.
C6_FailedPollKeepsSnapshot ==
    [][\A c \in polls :
          (last'.kind = "poll_failed" /\ c \notin polls') =>
              /\ coords'[c].data = coords[c].data
              /\ coords'[c].data # None
              /\ ~coords'[c].ok
      ]_vars

\* C6 witness: a poll has just failed on a coordinator that holds a snapshot.
C6_Witness ==
    /\ last.kind = "poll_failed"
    /\ \E c \in 1..Len(coords) : ~coords[c].ok /\ coords[c].data # None

\* C7: an async_turn_on called with brightness b that ends without error ends
\* with a publish whose brightness is b.
C7_PublishCarriesBrightness ==
    [][\A cmd \in BagToSet(cmds) :
          (/\ last'.kind = "command_published"
           /\ Ended(cmd, cmds, cmds')
           /\ cmd.kind = "on"
           /\ cmd.b # None) =>
              /\ Data(coords', cmd.entity) # None
              /\ Data(coords', cmd.entity)[1].brightness = cmd.b
      ]_vars

\* C8: once async_unload_entry has discarded the entry, no step creates a
\* session, changes state.devices, sends a registration event or publishes
\* a snapshot.
C8_NothingAfterTeardown ==
    [][~hassData => UNCHANGED <<sessions, devices, order, regLog, coords>>]_vars

\* C9: while the entry is set up, an address that is registered stays
\* registered with the same session and the same coordinator.
C9_RegistryOnlyGrows ==
    [][hassData' =>
          \A a \in DOMAIN devices : a \in DOMAIN devices' /\ devices'[a] = devices[a]]_vars

\* C10: at most one detection_callback task is inside
\* device.detection_callback for any one address.
C10_OneAdvertisementAtATime == \A a \in Addr : InProgress(a) <= 1

\* What is in progress on session d: a detection_callback suspended in
\* device.detection_callback, a refresh suspended in device.update, a service
\* call suspended in one of the device's commands.
UpdateInProgress(d) == \E t \in BagToSet(cb) : t.device = d
RefreshInProgress(d) == \E c \in polls : coords[c].dev = d
CommandInProgress(d) == \E cmd \in BagToSet(cmds) : cmd.entity.device = d

\* C11: on one session, a command, a poll-tick refresh and a discovery
\* update exclude each other: no two of them are in progress at once.
C11_OneOperationPerSession ==
    \A d \in 1..Len(sessions) :
        /\ ~(CommandInProgress(d) /\ RefreshInProgress(d))
        /\ ~(CommandInProgress(d) /\ UpdateInProgress(d))
        /\ ~(RefreshInProgress(d) /\ UpdateInProgress(d))

\* The callbacks and refreshes of an address that are suspended in a
\* transport call.
Pending(a) ==
    \/ InProgress(a) > 0
    \/ \E c \in polls : sessions[coords[c].dev].addr = a

\* C12: while the transport calls of one address never return, an
\* advertisement or a poll for any other address that is being processed is
\* eventually processed to its end.
C12_HangDoesNotBlockOthers ==
    \A a \in Addr \ Hanging : Pending(a) ~> ~Pending(a)

\* C12 witness: the initial contact of another address has just ended and
\* registered it while a call of the hanging address is still suspended.
C12_Witness ==
    /\ last.kind = "new_ok"
    /\ regLog # <<>>
    /\ AddressOf(sessions, regLog[Len(regLog)]) \notin Hanging
    /\ \E h \in Hanging : InProgress(h) > 0
    /\ \A a \in Addr \ Hanging : ~Pending(a)

\* The task or command that began in this step.
Begun(task, bag, bagAfter) == CopiesIn(task, bagAfter) > CopiesIn(task, bag)

\* C13: an advertisement for a registered address constructs no session and
\* is forwarded to the session of the entry found for the address, whatever
\* device_filter would say of it; when the forward succeeds the callback ends
\* by publishing that session's state through the coordinator that owns the
\* session, in the same step and with no poll tick.
C13_KnownAdvertisementPublishes ==
    [][/\ last'.kind = "known_start" =>
            /\ sessions' = sessions
            /\ \E t \in BagToSet(cb') :
                  /\ Begun(t, cb, cb')
                  /\ t.addr \in DOMAIN devices
                  /\ t.device = devices[t.addr].device
                  /\ t.coordinator = devices[t.addr].coordinator
       /\ \A t \in BagToSet(cb) :
            (last'.kind = "known_ok" /\ Ended(t, cb, cb')) =>
                /\ Len(sessions') = Len(sessions)
                /\ coords'[t.coordinator].dev = t.device
                /\ coords'[t.coordinator].data = Some(sessions'[t.device].state)
                /\ coords'[t.coordinator].data[1].on = t.on
                /\ polls' = polls
                /\ nEvents' = nEvents
      ]_vars

\* C13 witness: the known-device path has just ended, one session exists
\* for the address and its state is the published snapshot.
C13_Witness ==
    /\ last.kind = "known_ok"
    /\ \E a \in DOMAIN devices :
          /\ coords[devices[a].coordinator].data = Some(sessions[devices[a].device].state)
          /\ SessionsFor(a) = 1

\* Coordinator c holds, as a success, the current state of its session.
PublishedCurrent(cs, ss, c) ==
    cs[c].ok /\ cs[c].data = Some(ss[cs[c].dev].state)

\* C14: last_update_success follows the most recent publish attempt on every
\* path.  A failed poll clears it; a successful poll, the publish that ends
\* the known-device path and the publish that ends a service call each set it
\* and store the session's current state as the published snapshot; and no
\* other step changes it.
C14_FlagFollowsLastPublish ==
    [][/\ \A c \in polls :
            (c \notin polls') =>
                IF last'.kind = "poll_failed"
                THEN ~coords'[c].ok
                ELSE PublishedCurrent(coords', sessions', c)
       /\ \A t \in BagToSet(cb) :
            (last'.kind = "known_ok" /\ Ended(t, cb, cb')) =>
                PublishedCurrent(coords', sessions', t.coordinator)
       /\ \A cmd \in BagToSet(cmds) :
            (last'.kind = "command_published" /\ Ended(cmd, cmds, cmds')) =>
                PublishedCurrent(coords', sessions', cmd.entity.coordinator)
       /\ (last'.kind = "command_published" /\ cmds' = cmds) =>
            \E e \in entities["light"] :
                /\ PublishedCurrent(coords', sessions', e.coordinator)
                /\ \A c \in 1..Len(coords) : c # e.coordinator => coords'[c] = coords[c]
       /\ \A c \in 1..Len(coords) :
            coords'[c].ok # coords[c].ok =>
                last'.kind \in {"poll_failed", "poll_ok", "known_ok", "command_published"}
      ]_vars

\* C14 witness: a poll has failed and set the flag of a coordinator on which
\* the known-device path is suspended, about to publish out of band.
C14_Witness ==
    \E t \in BagToSet(cb) :
        /\ t.path = "known"
        /\ ~coords[t.coordinator].ok
        /\ t.coordinator \notin polls

\* The entities a platform has added for an address.
EntitiesFor(p, a) == {e \in entities[p] : AddressOf(sessions, e) = a}

\* C15: every registered address is exposed as two controls: each platform
\* that is set up, the light platform and the number platform alike, has
\* exactly one entity for it, whether the entry was there when the platform
\* subscribed or was registered later.
C15_TwoControlsPerDevice ==
    \A p \in subscribed : \A a \in DOMAIN devices :
        Cardinality(EntitiesFor(p, a)) = 1

\* What an accessor is to return for a field of the published snapshot: none
\* without a snapshot, the placeholder for a field that is not set, and the
\* field's value otherwise.
Shown(data, field, placeholder) ==
    IF data = None THEN None
    ELSE IF field = None THEN Some(placeholder)
    ELSE field

\* C16: a light's brightness and rgb_color return the placeholder only for a
\* field the published snapshot reports as not set, and every value that is
\* set, brightness 0 and colour (0,0,0) included, as it is.
C16_PlaceholderOnlyWhenUnset ==
    \A e \in entities["light"] :
        LET data == Data(coords, e)
        IN  /\ data = None => brightness(coords, e) = None /\ rgb_color(coords, e) = None
            /\ data # None =>
                  /\ brightness(coords, e) = Shown(data, data[1].brightness, DEFAULT_BRIGHTNESS)
                  /\ rgb_color(coords, e) = Shown(data, data[1].color, DEFAULT_COLOR)

\* Nothing is in progress: no callback, refresh or service call is suspended.
Idle == cb = EmptyBag /\ polls = {} /\ cmds = EmptyBag

\* The service call cmd is the only operation in progress, and the published
\* snapshot still shows the power state the call decided its toggle on: no
\* other call, poll or advertisement has published since.
RanAlone(cmd) ==
    /\ BagCardinality(cmds) = 1
    /\ cb = EmptyBag
    /\ polls = {}
    /\ cmd.stage = 1
    /\ is_on(coords, cmd.entity) = (cmd.kind = "off")

\* C17: an async_turn_on that returns without error leaves the session's
\* power on and an async_turn_off leaves it off, whatever calls came before,
\* calls that failed part-way included.  Stated for the calls nothing
\* interferes with: a call on the only light that starts while nothing is in
\* progress and needs no command (async_turn_on with the snapshot on,
\* async_turn_off with the snapshot off: the power it wants is the
\* snapshot's), and a call that toggled the power and ran alone.
C17_TurnOnLeavesPowerOn ==
    [][/\ \A e \in entities["light"] :
            (/\ last'.kind = "command_published"
             /\ Idle
             /\ cmds' = cmds
             /\ entities["light"] = {e}) =>
                sessions'[e.device].state.on = is_on(coords, e)
       /\ \A cmd \in BagToSet(cmds) :
            (/\ last'.kind = "command_published"
             /\ Ended(cmd, cmds, cmds')
             /\ RanAlone(cmd)) =>
                sessions'[cmd.entity.device].state.on = (cmd.kind = "on")
      ]_vars

\* C18: an async_turn_on one of whose commands fails with BleConnectionError
\* ends there and publishes nothing: no step of the call, the failing one
\* included, changes a coordinator's snapshot or its failure flag, even though
\* an earlier command of the call has changed the session.
C18_FailedCommandPublishesNothing ==
    [][/\ last'.kind \in {"command_start", "command_next"} => coords' = coords
       /\ \A cmd \in BagToSet(cmds) :
            (last'.kind = "command_failed" /\ Ended(cmd, cmds, cmds') /\ cmd.kind = "on") =>
                /\ coords' = coords
                /\ cmds' = Without(cmds, cmd)
                /\ sessions' = sessions
      ]_vars

\* C18 witness: a call has just failed with nothing else in progress, after
\* its power toggle had succeeded: the session is on and the published
\* snapshot, still the one from before the call, says off.
C18_Witness ==
    /\ last.kind = "command_failed"
    /\ Idle
    /\ \E e \in entities["light"] :
          /\ sessions[e.device].state.on
          /\ ~is_on(coords, e)
          /\ coords[e.coordinator].ok

\* C19: async_unload_entry removes the entry's state from hass.data exactly
\* when unloading the platforms succeeded, and then returns True; when it
\* failed the entry's state and its registry are left as they were and False
\* is returned.  Nothing else removes the entry's state.
C19_UnloadDiscardsOnlyOnSuccess ==
    [][/\ last'.kind = "unload_true" => hassData /\ ~hassData'
       /\ last'.kind = "unload_false" =>
            /\ hassData /\ hassData'
            /\ UNCHANGED <<devices, order, sessions, coords, entities, subscribed>>
       /\ (hassData /\ ~hassData') => last'.kind = "unload_true"
      ]_vars

\* C19 witness: a successful unload has just removed the state of an entry
\* whose registry holds a device.
C19_Witness ==
    /\ last.kind = "unload_true"
    /\ ~hassData
    /\ DOMAIN devices # {}

====
